---- MODULE Spec2Model ----
(***************************************************************************)
(* The Usage reconciler (internal/controller/apiextensions/usage) and the  *)
(* usage admission webhook (internal/usage) over a declarative object      *)
(* store with optimistic concurrency.                                      *)
(*                                                                         *)
(* A reconcile pass is split at its store calls: every action below is one *)
(* store call of Reconciler.Reconcile together with the local computation  *)
(* that follows it up to the next store call, so that passes of different  *)
(* Usages, user requests and the garbage collector interleave exactly      *)
(* where the code may be suspended.                                        *)
(***************************************************************************)
EXTENDS Integers, Sequences, FiniteSets, TLC

\* How many store calls may fail with a transient error in one behaviour.
MaxErrors == 1

\* Names of the Usage objects a behaviour may create.
UsageNames == {"u1", "u2"}

\* Names of the other objects of the store (used and using resources).
ObjNames == {"a", "b"}

\* spec.by absent (a nil *Resource).
None == "none"

\* The composite name prefixes objects may be labelled with ("" is no label).
Prefixes == {"", "P"}

\* The name of a spec.of that has a selector and is not resolved yet.
Unresolved == ""

\* apiVersion, kind and name of an object of the store (a, a second object
\* a2 of a's kind, and b), and of a spec.of not resolved yet.
Ref(o) ==
    IF o = "b" THEN [apiVersion |-> "g.io/v1", kind |-> "B", name |-> "b"]
               ELSE [apiVersion |-> "v1", kind |-> "A", name |-> o]

\* The UID of the composite resource that controls a composed Usage. It is
\* no object of ObjNames: its deletion is the cascade of DeleteUsage.
Composite == "xr"

\* The specs the Usage u can be created with: of, by, the Usage's own
\* composite-name-prefix label, the owner references it is created with and
\* the objects the selector of spec.of matches (none: spec.of has a name).
\* u1 uses a on behalf of b, composed by a composite (which then is its
\* first owner) or not; u2 is an unowned pin of a or of b.
UsageSpecs(u) ==
    IF u = "u1"
    THEN { [of |-> "a", by |-> "b",  prefix |-> "P", owners |-> <<Composite>>,
             matches |-> {}],
           [of |-> "a", by |-> "b",  prefix |-> "",  owners |-> <<>>, matches |-> {}] }
    ELSE { [of |-> "a", by |-> None, prefix |-> "",  owners |-> <<>>, matches |-> {}],
           [of |-> "b", by |-> None, prefix |-> "",  owners |-> <<>>, matches |-> {}] }

VARIABLES
    usages,   \* the Usage objects of the store
    objs,     \* the other objects of the store
    pass,     \* per Usage key: the reconcile pass in flight, and its last result
    errs,     \* transient store errors so far
    resp,     \* the admission request the webhook served last, and its response
    val       \* the composition validation call made last, and its result

vars == <<usages, objs, pass, errs, resp, val>>

----------------------------------------------------------------------------
\* Store helpers.

\* A Usage object that is not (or no longer) in the store.
NoUsage(phase) ==
    [phase |-> phase, of |-> "a", by |-> None, prefix |-> "",
     finalizer |-> FALSE, deleted |-> FALSE, owners |-> <<>>,
     synced |-> FALSE, matches |-> {}, ver |-> 0]

\* What remains of a Usage that has left the store: nothing in the store;
\* the record keeps what it used, and whether it left by its deletion path
\* (it was marked for deletion and its finalizer was removed).
Gone(us) ==
    [NoUsage("gone") EXCEPT !.of = us.of, !.by = us.by, !.prefix = us.prefix,
                            !.deleted = us.deleted]

\* The Usages a List or Get can see.
Present == {u \in UsageNames : usages[u].phase = "present"}

\* The store assigns a new resourceVersion to an update only when the update
\* changes the object; an update that writes back what is stored leaves the
\* version as it is.
Bump(old, new) == IF new = old THEN old ELSE [new EXCEPT !.ver = old.ver + 1]

\* An object that was not found.
NoObject ==
    [exists |-> FALSE, label |-> FALSE, owners |-> {}, prefix |-> "", ver |-> 0]

\* No reconcile pass in flight, local copies cleared.
Idle(result, wrote) ==
    [pc |-> "idle", lu |-> NoUsage("absent"), lused |-> NoObject,
     n |-> 0, wrote |-> wrote, result |-> result]

----------------------------------------------------------------------------
\* The reverse index and the admission webhook.

\* The index value of a Usage: apiVersion "." kind "." name of spec.of.
getIndexValueForUsage(u) ==
    Ref(usages[u].of).apiVersion \o "." \o Ref(usages[u].of).kind
        \o "." \o Ref(usages[u].of).name

\* getIndexValueForObject with the name left out of the value.
getIndexValueForObjectNoName(o) ==
    Ref(o).apiVersion \o "." \o Ref(o).kind

\* The index value of an object: its own apiVersion "." kind "." name.
getIndexValueForObject(o) ==
    Ref(o).apiVersion \o "." \o Ref(o).kind \o "." \o Ref(o).name

\* List with MatchingFields{index key: value}: the Usages in the store whose
\* index value is `value`.
ListUsages(value) == {u \in Present : getIndexValueForUsage(u) = value}

\* MatchingUsages without field selector and without the comparison of
\* spec.of: every Usage of the store.
MatchingUsagesAnyObject(o) == Present

\* The Usages of a listing whose spec.of is exactly the object o.
MatchingUsages(o) ==
    {u \in ListUsages(getIndexValueForObject(o)) :
        /\ Ref(usages[u].of).apiVersion = Ref(o).apiVersion
        /\ Ref(usages[u].of).kind = Ref(o).kind
        /\ Ref(usages[u].of).name = Ref(o).name}

\* schema.GroupVersionKind of an object: the group and version of its
\* apiVersion ("v1" is the core group "").
GroupVersion(o) ==
    IF o = "b" THEN [group |-> "g.io", version |-> "v1"]
               ELSE [group |-> "", version |-> "v1"]

\* GroupVersionKind.String: group "/" version ", Kind=" kind.
GroupVersionKindString(o) ==
    GroupVersion(o).group \o "/" \o GroupVersion(o).version
        \o ", Kind=" \o Ref(o).kind

\* admission.Errored, admission.Denied and admission.Allowed.
Errored(code, msg) == [allowed |-> FALSE, code |-> code, msg |-> msg]
Denied(msg) == [allowed |-> FALSE, code |-> 403, msg |-> msg]
Allowed(msg) == [allowed |-> TRUE, code |-> 200, msg |-> msg]

\* The handler dereferenced nil: the request ends without a response.
Panicked == [allowed |-> FALSE, code |-> 0, msg |-> ""]

\* The text of the error of a failed List.
errList == "list failed"

\* The Denied response for object o on account of the Usage u: the message
\* is built from the GroupVersionKind of o, the object under deletion, and
\* spec.by.name of the Usage; reading spec.by.name of a Usage without
\* spec.by dereferences nil.
DeniedBy(o, u) ==
    IF usages[u].by = None THEN Panicked
    ELSE Denied("The resource is used by " \o GroupVersionKindString(o)
                    \o "/" \o Ref(usages[u].by).name)

\* validateNoUsages taking a failed list for an empty one.
validateNoUsagesIgnoringListError(o, listFails) ==
    IF listFails \/ MatchingUsages(o) = {} THEN {Allowed("")}
    ELSE {DeniedBy(o, u) : u \in MatchingUsages(o)}

\* The responses validateNoUsages can give for object o: Errored(500) when
\* the list fails; Denied for the first matching Usage of the listing (the
\* order of a listing is not fixed); Allowed when no Usage matches.
validateNoUsages(o, listFails) ==
    IF listFails THEN {Errored(500, errList)}
    ELSE IF MatchingUsages(o) = {} THEN {Allowed("")}
         ELSE {DeniedBy(o, u) : u \in MatchingUsages(o)}

\* The operations of an admission request the handler knows.
Operations == {"CREATE", "UPDATE", "DELETE", "CONNECT"}

\* An operation the handler does not know.
UnknownOperation == "PATCH"

\* Handle with CONNECT falling through to the validation of a DELETE.
HandleConnectAsDelete(op, o, listFails) ==
    IF op \in {"CREATE", "UPDATE"}
    THEN {Errored(400, "unexpected operation")}
    ELSE IF op \in {"DELETE", "CONNECT"} THEN validateNoUsages(o, listFails)
    ELSE {Errored(400, "unexpected operation")}

\* The responses of the webhook to an admission request.
Handle(op, o, listFails) ==
    IF op \in {"CREATE", "UPDATE", "CONNECT"}
    THEN {Errored(400, "unexpected operation")}
    ELSE IF op = "DELETE" THEN validateNoUsages(o, listFails)
    ELSE {Errored(400, "unexpected operation")}

\* No admission request served yet.
NoRequest ==
    [op |-> "none", obj |-> "a", listFails |-> FALSE, response |-> Panicked]

\* No composition validation call made yet.
NoCall == [fn |-> "none"]

\* A DELETE of o passes admission.
Admitted(o) == \E r \in Handle("DELETE", o, FALSE) : r.allowed

----------------------------------------------------------------------------
\* Init: the store holds the objects a and b, unlabelled, and no Usage yet;
\* b may carry a composite name prefix.

Init ==
    /\ usages = [u \in UsageNames |-> NoUsage("absent")]
    /\ \E px \in Prefixes :
          objs = [o \in ObjNames |->
                    [exists |-> TRUE, label |-> FALSE, owners |-> {},
                     prefix |-> IF o = "b" THEN px ELSE "", ver |-> 1]]
    /\ pass = [u \in UsageNames |-> Idle("none", {})]
    /\ errs = 0
    /\ resp = NoRequest
    /\ val = NoCall

----------------------------------------------------------------------------
\* Requests of users and of the garbage collector.

\* The Usage with spec s as the store holds it after its creation.
NewUsage(s) ==
    [NoUsage("present") EXCEPT !.of = s.of, !.by = s.by, !.prefix = s.prefix,
                               !.owners = s.owners, !.matches = s.matches,
                               !.ver = 1]

\* A user creates the Usage u with spec s.
CreateUsage(u, s) ==
    /\ usages[u].phase = "absent"
    /\ usages' = [usages EXCEPT ![u] = NewUsage(s)]
    /\ UNCHANGED <<objs, pass, errs, resp, val>>

\* The store's handling of a DELETE of Usage u: with a finalizer the Usage
\* gets its deletion timestamp, without one it leaves the store at once.
MarkDeleted(u) ==
    IF usages[u].finalizer
    THEN [usages EXCEPT ![u].deleted = TRUE, ![u].ver = @ + 1]
    ELSE [usages EXCEPT ![u] = Gone(usages[u])]

\* A user (or the cascade of a deleted composite) deletes the Usage u.
DeleteUsage(u) ==
    /\ usages[u].phase = "present"
    /\ ~usages[u].deleted
    /\ usages' = MarkDeleted(u)
    /\ UNCHANGED <<objs, pass, errs, resp, val>>

\* The owner with this UID is in the store.
OwnerExists(uid) == IF uid \in ObjNames THEN objs[uid].exists ELSE TRUE

\* The garbage collector deletes a Usage none of whose owners exists.
GCUsage(u) ==
    /\ usages[u].phase = "present"
    /\ ~usages[u].deleted
    /\ usages[u].owners # <<>>
    /\ \A i \in 1..Len(usages[u].owners) : ~OwnerExists(usages[u].owners[i])
    /\ usages' = MarkDeleted(u)
    /\ UNCHANGED <<objs, pass, errs, resp, val>>

\* A DELETE of object o: it takes effect when the webhook allows it.
DeleteObject(o) ==
    /\ objs[o].exists
    /\ Admitted(o)
    /\ objs' = [objs EXCEPT ![o].exists = FALSE]
    /\ UNCHANGED <<usages, pass, errs, resp, val>>

----------------------------------------------------------------------------
\* Reconciler.Reconcile, one action per store call.

\* The errors a pass can return.
errGetUsage == "cannot get usage"
errResolveSelectors == "cannot resolve selectors"
errListUsages == "cannot list usages"
errGetUsing == "cannot get using"
errGetUsed == "cannot get used"
errAddOwnerToUsage == "cannot update usage xpresource with owner ref"
errAddInUseLabel == "cannot add in use use label to the used xpresource"
errRemoveInUseLabel == "cannot remove in use label from the used xpresource"
errAddFinalizer == "cannot add finalizer"
errRemoveFinalizer == "cannot remove finalizer"
errUpdateStatus == "cannot update status of usage"

\* The error the pass returns when its store call at pc fails.
ErrorAt(pc) ==
    CASE pc = "idle" -> errGetUsage
      [] pc \in {"dGetUsing", "sGetUsing"} -> errGetUsing
      [] pc \in {"dGetUsed", "sGetUsed"} -> errGetUsed
      [] pc \in {"rList", "rUpdate"} -> errResolveSelectors
      [] pc = "dList" -> errListUsages
      [] pc = "dUpdate" -> errRemoveInUseLabel
      [] pc = "dRmFin" -> errRemoveFinalizer
      [] pc = "sLabel" -> errAddInUseLabel
      [] pc = "sOwner" -> errAddOwnerToUsage
      [] OTHER -> errUpdateStatus

\* The pass returned an error.
Failed(u) ==
    pass[u].result \notin {"none", "running", "done", "requeue"}

\* The pass of u ends with `result`; the local copies are dropped.
End(u, result, wrote) == [pass EXCEPT ![u] = Idle(result, wrote)]

\* The pass of u goes on to the store call pc.
Goto(u, pc) == [pass EXCEPT ![u].pc = pc]

\* An Update of Usage u from the pass's copy is refused: the Usage is gone
\* (NotFound) or its resourceVersion is not the copy's (Conflict).
UsageUpdateRefused(u) ==
    \/ usages[u].phase # "present"
    \/ usages[u].ver # pass[u].lu.ver

\* An Update of the used resource from the pass's copy is refused.
UsedUpdateRefused(u) ==
    \/ ~objs[pass[u].lu.of].exists
    \/ objs[pass[u].lu.of].ver # pass[u].lused.ver

\* The step after the in-use label of the steady-state path.
AfterLabel(u) == IF pass[u].lu.by # None THEN "sGetUsing" ELSE "sStatus"

\* Get of the object o: the object, or the empty object when NotFound.
Get(o) == IF objs[o].exists THEN objs[o] ELSE NoObject

\* SameComposite with the comparison of the prefixes inverted.
SameCompositeInverted(prefix, using) ==
    /\ prefix # ""
    /\ prefix # using.prefix
    /\ using.exists

\* SameComposite without the test that the Usage's prefix is not empty.
SameCompositeEmptyPrefix(prefix, using) ==
    /\ prefix = using.prefix
    /\ using.exists

\* Usage and using resource are composed by the same composite: the
\* Usage's composite name prefix is not empty and is the one of the using
\* resource as fetched, and the using resource was found.
SameComposite(prefix, using) ==
    /\ prefix # ""
    /\ prefix = using.prefix
    /\ using.exists

\* NoOtherUsages off by one: the Usage itself counts as another one.
NoOtherUsagesOffByOne(n) == n < 1

\* NoOtherUsages one too high: one other Usage does not count.
NoOtherUsagesButOne(n) == n < 3

\* There is no other Usage of the used resource among the n listed.
NoOtherUsages(n) == n < 2

\* AddOwnerReference overwriting the owner list with the one reference.
AddOwnerReferenceOverwrite(owners, uid) == <<uid>>

\* meta.AddOwnerReference: the reference replaces the one with its UID, or
\* is appended.
AddOwnerReference(owners, uid) ==
    IF \E i \in 1..Len(owners) : owners[i] = uid THEN owners
    ELSE Append(owners, uid)

\* The first store call of the pass once the selectors of the Usage us are
\* resolved: the branch on its deletion timestamp and finalizer.
AfterResolve(us) ==
    IF us.deleted
    THEN IF us.by # None THEN "dGetUsing" ELSE "dGetUsed"
    ELSE IF us.finalizer THEN "sGetUsed" ELSE "sAddFin"

\* Get the Usage and call the selector resolver, which has nothing to do
\* (and makes no store call) when spec.of has its name.
Load(u) ==
    /\ pass[u].pc = "idle"
    /\ usages[u].phase = "present"
    /\ pass' = [pass EXCEPT ![u] =
          [Idle("running", {}) EXCEPT
             !.lu = usages[u],
             !.pc = IF usages[u].of = Unresolved THEN "rList"
                    ELSE AfterResolve(usages[u])]]
    /\ UNCHANGED <<usages, objs, errs, resp, val>>

\* GetUsingDeleting without the wait for the using resource.
GetUsingDeletingNoWait(u) ==
    /\ pass[u].pc = "dGetUsing"
    /\ pass' = Goto(u, "dGetUsed")
    /\ UNCHANGED <<usages, objs, errs, resp, val>>

\* GetUsingDeleting waiting for every using resource that exists.
GetUsingDeletingWaitAlways(u) ==
    /\ pass[u].pc = "dGetUsing"
    /\ pass' = IF Get(pass[u].lu.by).exists
               THEN End(u, "requeue", pass[u].wrote)
               ELSE Goto(u, "dGetUsed")
    /\ UNCHANGED <<usages, objs, errs, resp, val>>

\* GetUsingDeleting failing the pass when the using resource is NotFound.
GetUsingDeletingNotFoundFails(u) ==
    /\ pass[u].pc = "dGetUsing"
    /\ pass' = IF ~objs[pass[u].lu.by].exists
               THEN End(u, errGetUsing, pass[u].wrote)
               ELSE IF SameComposite(pass[u].lu.prefix, Get(pass[u].lu.by))
               THEN End(u, "requeue", pass[u].wrote)
               ELSE Goto(u, "dGetUsed")
    /\ UNCHANGED <<usages, objs, errs, resp, val>>

\* Deletion path: Get the using resource, and wait for it to be deleted
\* when it is composed by the same composite as the Usage.
GetUsingDeleting(u) ==
    /\ pass[u].pc = "dGetUsing"
    /\ pass' = IF SameComposite(pass[u].lu.prefix, Get(pass[u].lu.by))
               THEN End(u, "requeue", pass[u].wrote)
               ELSE Goto(u, "dGetUsed")
    /\ UNCHANGED <<usages, objs, errs, resp, val>>

\* GetUsedDeleting failing the pass when the used resource is NotFound.
GetUsedDeletingNotFoundFails(u) ==
    /\ pass[u].pc = "dGetUsed"
    /\ pass' = IF objs[pass[u].lu.of].exists
               THEN [pass EXCEPT ![u].lused = objs[pass[u].lu.of],
                                 ![u].pc = "dList"]
               ELSE End(u, errGetUsed, pass[u].wrote)
    /\ UNCHANGED <<usages, objs, errs, resp, val>>

\* Deletion path: Get the used resource; NotFound skips the label cleanup.
GetUsedDeleting(u) ==
    /\ pass[u].pc = "dGetUsed"
    /\ pass' = IF objs[pass[u].lu.of].exists
               THEN [pass EXCEPT ![u].lused = objs[pass[u].lu.of],
                                 ![u].pc = "dList"]
               ELSE Goto(u, "dRmFin")
    /\ UNCHANGED <<usages, objs, errs, resp, val>>

\* Deletion path: list the Usages indexed under the used resource; with
\* fewer than two the in-use label is to be removed.
ListUsagesOfUsed(u) ==
    /\ pass[u].pc = "dList"
    /\ LET n == Cardinality(ListUsages(getIndexValueForObject(pass[u].lu.of)))
       IN pass' = [pass EXCEPT ![u].n = n,
                               ![u].pc = IF NoOtherUsages(n) THEN "dUpdate"
                                         ELSE "dRmFin"]
    /\ UNCHANGED <<usages, objs, errs, resp, val>>

\* RemoveInUseLabel going on to the finalizer when its Update fails.
RemoveInUseLabelIgnoringFailure(u) ==
    /\ pass[u].pc = "dUpdate"
    /\ IF UsedUpdateRefused(u)
       THEN /\ pass' = Goto(u, "dRmFin")
            /\ UNCHANGED objs
       ELSE LET of == pass[u].lu.of
                new == Bump(objs[of], [objs[of] EXCEPT !.label = FALSE])
            IN /\ objs' = [objs EXCEPT ![of] = new]
               /\ pass' = [pass EXCEPT ![u].lused = new,
                                       ![u].wrote = @ \cup {"used"},
                                       ![u].pc = "dRmFin"]
    /\ UNCHANGED <<usages, errs, resp, val>>

\* Deletion path: Update the used resource without the in-use label.
RemoveInUseLabel(u) ==
    /\ pass[u].pc = "dUpdate"
    /\ IF UsedUpdateRefused(u)
       THEN /\ pass' = End(u, errRemoveInUseLabel, pass[u].wrote)
            /\ UNCHANGED objs
       ELSE LET of == pass[u].lu.of
                new == Bump(objs[of], [objs[of] EXCEPT !.label = FALSE])
            IN /\ objs' = [objs EXCEPT ![of] = new]
               /\ pass' = [pass EXCEPT ![u].lused = new,
                                       ![u].wrote = @ \cup {"used"},
                                       ![u].pc = "dRmFin"]
    /\ UNCHANGED <<usages, errs, resp, val>>

\* Deletion path: remove the finalizer; the store then drops the Usage.
RemoveFinalizer(u) ==
    /\ pass[u].pc = "dRmFin"
    /\ IF ~pass[u].lu.finalizer \/ usages[u].phase # "present"
       THEN /\ pass' = End(u, "done", pass[u].wrote)
            /\ UNCHANGED usages
       ELSE IF UsageUpdateRefused(u)
       THEN /\ pass' = End(u, errRemoveFinalizer, pass[u].wrote)
            /\ UNCHANGED usages
       ELSE /\ usages' = [usages EXCEPT ![u] = Gone(usages[u])]
            /\ pass' = End(u, "done", pass[u].wrote \cup {"usage"})
    /\ UNCHANGED <<objs, errs, resp, val>>

\* AddFinalizer returning the error of its failed Update.
AddFinalizerReturningError(u) ==
    /\ pass[u].pc = "sAddFin"
    /\ IF UsageUpdateRefused(u)
       THEN /\ pass' = End(u, errAddFinalizer, pass[u].wrote)
            /\ UNCHANGED usages
       ELSE LET new == Bump(usages[u], [usages[u] EXCEPT !.finalizer = TRUE])
            IN /\ usages' = [usages EXCEPT ![u] = new]
               /\ pass' = [pass EXCEPT ![u].lu = new,
                                       ![u].wrote = @ \cup {"usage"},
                                       ![u].pc = "sGetUsed"]
    /\ UNCHANGED <<objs, errs, resp, val>>

\* AddFinalizer going on to the used resource when its Update fails.
AddFinalizerIgnoringFailure(u) ==
    /\ pass[u].pc = "sAddFin"
    /\ IF UsageUpdateRefused(u)
       THEN /\ pass' = Goto(u, "sGetUsed")
            /\ UNCHANGED usages
       ELSE LET new == Bump(usages[u], [usages[u] EXCEPT !.finalizer = TRUE])
            IN /\ usages' = [usages EXCEPT ![u] = new]
               /\ pass' = [pass EXCEPT ![u].lu = new,
                                       ![u].wrote = @ \cup {"usage"},
                                       ![u].pc = "sGetUsed"]
    /\ UNCHANGED <<objs, errs, resp, val>>

\* Steady state: add the finalizer. When the Update fails the pass
\* returns an empty result and no error.
AddFinalizer(u) ==
    /\ pass[u].pc = "sAddFin"
    /\ IF UsageUpdateRefused(u)
       THEN /\ pass' = End(u, "done", pass[u].wrote)
            /\ UNCHANGED usages
       ELSE LET new == Bump(usages[u], [usages[u] EXCEPT !.finalizer = TRUE])
            IN /\ usages' = [usages EXCEPT ![u] = new]
               /\ pass' = [pass EXCEPT ![u].lu = new,
                                       ![u].wrote = @ \cup {"usage"},
                                       ![u].pc = "sGetUsed"]
    /\ UNCHANGED <<objs, errs, resp, val>>

\* The used resource needs the in-use label written: it lacks the label or
\* is not owned by the Usage.
NeedsInUseLabel(used, u) == ~used.label \/ u \notin used.owners

\* GetUsed going on to the using resource when the used one is NotFound.
GetUsedIgnoringNotFound(u) ==
    /\ pass[u].pc = "sGetUsed"
    /\ LET used == objs[pass[u].lu.of]
       IN pass' = IF ~used.exists THEN Goto(u, AfterLabel(u))
                  ELSE [pass EXCEPT ![u].lused = used,
                                    ![u].pc = IF NeedsInUseLabel(used, u)
                                              THEN "sLabel" ELSE AfterLabel(u)]
    /\ UNCHANGED <<usages, objs, errs, resp, val>>

\* Steady state: Get the used resource; NotFound fails the pass.
GetUsed(u) ==
    /\ pass[u].pc = "sGetUsed"
    /\ LET used == objs[pass[u].lu.of]
       IN pass' = IF ~used.exists THEN End(u, errGetUsed, pass[u].wrote)
                  ELSE [pass EXCEPT ![u].lused = used,
                                    ![u].pc = IF NeedsInUseLabel(used, u)
                                              THEN "sLabel" ELSE AfterLabel(u)]
    /\ UNCHANGED <<usages, objs, errs, resp, val>>

\* AddInUseLabel writing the label on the using resource when there is one.
AddInUseLabelOnUsing(u) ==
    /\ pass[u].pc = "sLabel"
    /\ IF UsedUpdateRefused(u)
       THEN /\ pass' = End(u, errAddInUseLabel, pass[u].wrote)
            /\ UNCHANGED objs
       ELSE LET o == IF pass[u].lu.by # None THEN pass[u].lu.by ELSE pass[u].lu.of
                new == Bump(objs[o], [objs[o] EXCEPT !.label = TRUE])
            IN /\ objs' = [objs EXCEPT ![o] = new]
               /\ pass' = [pass EXCEPT ![u].lused = new,
                                       ![u].wrote = @ \cup {"used"},
                                       ![u].pc = AfterLabel(u)]
    /\ UNCHANGED <<usages, errs, resp, val>>

\* Steady state: Update the used resource with label in-use=true.
AddInUseLabel(u) ==
    /\ pass[u].pc = "sLabel"
    /\ IF UsedUpdateRefused(u)
       THEN /\ pass' = End(u, errAddInUseLabel, pass[u].wrote)
            /\ UNCHANGED objs
       ELSE LET of == pass[u].lu.of
                new == Bump(objs[of], [objs[of] EXCEPT !.label = TRUE])
            IN /\ objs' = [objs EXCEPT ![of] = new]
               /\ pass' = [pass EXCEPT ![u].lused = new,
                                       ![u].wrote = @ \cup {"used"},
                                       ![u].pc = AfterLabel(u)]
    /\ UNCHANGED <<usages, errs, resp, val>>

\* GetUsing setting Synced=False when the using resource is NotFound.
GetUsingResettingStatus(u) ==
    /\ pass[u].pc = "sGetUsing"
    /\ LET by == pass[u].lu.by
           owners == pass[u].lu.owners
       IN IF ~objs[by].exists
          THEN /\ pass' = End(u, errGetUsing, pass[u].wrote)
               /\ usages' = [usages EXCEPT ![u].synced = FALSE]
          ELSE /\ pass' = Goto(u, IF owners = <<>> \/ owners[1] # by
                                  THEN "sOwner" ELSE "sStatus")
               /\ UNCHANGED usages
    /\ UNCHANGED <<objs, errs, resp, val>>

\* GetUsing going on to the owner reference when the using resource is
\* NotFound.
GetUsingIgnoringNotFound(u) ==
    /\ pass[u].pc = "sGetUsing"
    /\ LET by == pass[u].lu.by
           owners == pass[u].lu.owners
       IN pass' = Goto(u, IF owners = <<>> \/ owners[1] # by
                          THEN "sOwner" ELSE "sStatus")
    /\ UNCHANGED <<usages, objs, errs, resp, val>>

\* Steady state: Get the using resource; NotFound fails the pass. The
\* owner reference is written unless the Usage's first owner is the using
\* resource.
GetUsing(u) ==
    /\ pass[u].pc = "sGetUsing"
    /\ LET by == pass[u].lu.by
           owners == pass[u].lu.owners
       IN pass' = IF ~objs[by].exists THEN End(u, errGetUsing, pass[u].wrote)
                  ELSE Goto(u, IF owners = <<>> \/ owners[1] # by
                               THEN "sOwner" ELSE "sStatus")
    /\ UNCHANGED <<usages, objs, errs, resp, val>>

\* Steady state: Update the Usage with the using resource among its owners.
AddOwnerToUsage(u) ==
    /\ pass[u].pc = "sOwner"
    /\ IF UsageUpdateRefused(u)
       THEN /\ pass' = End(u, errAddOwnerToUsage, pass[u].wrote)
            /\ UNCHANGED usages
       ELSE LET new == Bump(usages[u],
                    [usages[u] EXCEPT !.owners =
                        AddOwnerReference(pass[u].lu.owners, pass[u].lu.by)])
            IN /\ usages' = [usages EXCEPT ![u] = new]
               /\ pass' = [pass EXCEPT ![u].lu = new,
                                       ![u].wrote = @ \cup {"usage"},
                                       ![u].pc = "sStatus"]
    /\ UNCHANGED <<objs, errs, resp, val>>

\* UpdateStatus returning without the status update.
UpdateStatusDropped(u) ==
    /\ pass[u].pc = "sStatus"
    /\ pass' = End(u, "done", pass[u].wrote)
    /\ UNCHANGED <<usages, objs, errs, resp, val>>

\* Steady state: set Synced=True and Ready=True with a status update.
UpdateStatus(u) ==
    /\ pass[u].pc = "sStatus"
    /\ IF UsageUpdateRefused(u)
       THEN /\ pass' = End(u, errUpdateStatus, pass[u].wrote)
            /\ UNCHANGED usages
       ELSE /\ usages' = [usages EXCEPT ![u] =
                            Bump(usages[u], [usages[u] EXCEPT !.synced = TRUE])]
            /\ pass' = End(u, "done", pass[u].wrote \cup {"status"})
    /\ UNCHANGED <<objs, errs, resp, val>>

\* The selector resolver on the listing of the candidates of spec.of: the
\* one candidate, NoMatch without a candidate, AmbiguousSelector with more
\* than one.
resolveSelectors(us) ==
    LET candidates == {o \in us.matches : objs[o].exists}
    IN IF candidates = {} THEN [err |-> "NoMatch", of |-> Unresolved]
       ELSE IF Cardinality(candidates) > 1
            THEN [err |-> "AmbiguousSelector", of |-> Unresolved]
            ELSE [err |-> "", of |-> CHOOSE o \in candidates : TRUE]

\* ResolveSelector going on with the pass when the resolver fails.
ResolveSelectorIgnoringError(u) ==
    /\ pass[u].pc = "rList"
    /\ LET r == resolveSelectors(pass[u].lu)
       IN pass' = IF r.err # "" THEN Goto(u, AfterResolve(pass[u].lu))
                  ELSE [pass EXCEPT ![u].lu.of = r.of, ![u].pc = "rUpdate"]
    /\ UNCHANGED <<usages, objs, errs, resp, val>>

\* The call of the selector resolver for a spec.of without name: the
\* resolver lists the candidates; when it fails the pass returns the error.
ResolveSelector(u) ==
    /\ pass[u].pc = "rList"
    /\ LET r == resolveSelectors(pass[u].lu)
       IN pass' = IF r.err # "" THEN End(u, errResolveSelectors, pass[u].wrote)
                  ELSE [pass EXCEPT ![u].lu.of = r.of, ![u].pc = "rUpdate"]
    /\ UNCHANGED <<usages, objs, errs, resp, val>>

\* The selector resolver persists the resolved name with an Update of the
\* Usage; when the Update is refused the pass returns the error.
PersistResolved(u) ==
    /\ pass[u].pc = "rUpdate"
    /\ IF UsageUpdateRefused(u)
       THEN /\ pass' = End(u, errResolveSelectors, pass[u].wrote)
            /\ UNCHANGED usages
       ELSE LET new == Bump(usages[u],
                            [usages[u] EXCEPT !.of = pass[u].lu.of])
            IN /\ usages' = [usages EXCEPT ![u] = new]
               /\ pass' = [pass EXCEPT ![u].lu = new,
                                       ![u].wrote = @ \cup {"usage"},
                                       ![u].pc = AfterResolve(new)]
    /\ UNCHANGED <<objs, errs, resp, val>>

\* The Synced condition in the status of the Usage us: the pass sets it to
\* True with its status update and never sets it otherwise.
SyncedCondition(us) == IF us.synced THEN "True" ELSE "absent"

\* The store call the pass of u is about to make (the Get of the Usage
\* when no pass is in flight) fails with a transient error. A failed
\* AddFinalizer is not reported as an error.
StoreError(u) ==
    /\ errs < MaxErrors
    /\ usages[u].phase = "present"
    /\ errs' = errs + 1
    /\ pass' = End(u, IF pass[u].pc = "sAddFin" THEN "done" ELSE ErrorAt(pass[u].pc),
                   IF pass[u].pc = "idle" THEN {} ELSE pass[u].wrote)
    /\ UNCHANGED <<usages, objs, resp, val>>

\* One store call of the reconcile pass of u.
Reconcile(u) ==
    \/ Load(u)
    \/ GetUsingDeleting(u)
    \/ GetUsedDeleting(u)
    \/ ListUsagesOfUsed(u)
    \/ RemoveInUseLabel(u)
    \/ RemoveFinalizer(u)
    \/ AddFinalizer(u)
    \/ GetUsed(u)
    \/ AddInUseLabel(u)
    \/ GetUsing(u)
    \/ AddOwnerToUsage(u)
    \/ UpdateStatus(u)

Next ==
    \/ \E u \in UsageNames : \E s \in UsageSpecs(u) : CreateUsage(u, s)
    \/ \E u \in UsageNames : DeleteUsage(u)
    \/ \E u \in UsageNames : GCUsage(u)
    \/ \E o \in ObjNames : DeleteObject(o)
    \/ \E u \in UsageNames : Reconcile(u)
    \/ \E u \in UsageNames : StoreError(u)

Spec == Init /\ [][Next]_vars

\* Fair reconciliation: the work queue keeps running the pass of every
\* Usage in the store (a pass that ends in an error or a requeue is run
\* again).
LiveSpec ==
    /\ Spec
    /\ \A u \in UsageNames : WF_vars(Reconcile(u))

\* Fair reconciliation with the garbage collector at work: a Usage whose
\* owners are gone is eventually collected.
GCSpec ==
    /\ LiveSpec
    /\ \A u \in UsageNames : WF_vars(GCUsage(u))

\* The cascade of a deleted composite: besides fair reconciliation, the
\* garbage collector keeps requesting the DELETE of the composed objects
\* until it is admitted.
CascadeSpec ==
    /\ LiveSpec
    /\ \A o \in ObjNames : WF_vars(DeleteObject(o))

----------------------------------------------------------------------------
\* A Usage whose spec.of has a label selector instead of a name.

\* The Usage reconciled in the specification with selectors.
SelectorUsage == "u2"

\* The objects of the store in the specification with selectors: a second
\* object of a's kind can match the selector.
SelectorObjNames == ObjNames \cup {"a2"}

\* The specs with a selector in spec.of: it matches no object, a, or a and
\* a2; spec.by has a name or is absent.
SelectorUsageSpecs ==
    { [of |-> Unresolved, by |-> by, prefix |-> "", owners |-> <<>>,
       matches |-> m] : by \in {None, "b"}, m \in {{}, {"a"}, {"a", "a2"}} }

SelectorInit ==
    /\ usages = [u \in UsageNames |-> NoUsage("absent")]
    /\ objs = [o \in SelectorObjNames |->
                 [exists |-> TRUE, label |-> FALSE, owners |-> {},
                  prefix |-> "", ver |-> 1]]
    /\ pass = [u \in UsageNames |-> Idle("none", {})]
    /\ errs = 0
    /\ resp = NoRequest
    /\ val = NoCall

SelectorNext ==
    \/ \E s \in SelectorUsageSpecs : CreateUsage(SelectorUsage, s)
    \/ DeleteUsage(SelectorUsage)
    \/ GCUsage(SelectorUsage)
    \/ \E o \in SelectorObjNames : DeleteObject(o)
    \/ ResolveSelector(SelectorUsage)
    \/ PersistResolved(SelectorUsage)
    \/ Reconcile(SelectorUsage)
    \/ StoreError(SelectorUsage)

SelectorSpec == SelectorInit /\ [][SelectorNext]_vars

----------------------------------------------------------------------------
\* The webhook handler on its own: any admission request against any store
\* of freshly created Usages.

\* The Usage u as a store can hold it: absent, or as created.
StoredUsages(u) == {NoUsage("absent")} \cup {NewUsage(s) : s \in UsageSpecs(u)}

WebhookInit ==
    /\ usages \in [UsageNames -> UNION {StoredUsages(u) : u \in UsageNames}]
    /\ \A u \in UsageNames : usages[u] \in StoredUsages(u)
    /\ \E px \in Prefixes :
          objs = [o \in ObjNames |->
                    [exists |-> TRUE, label |-> FALSE, owners |-> {},
                     prefix |-> IF o = "b" THEN px ELSE "", ver |-> 1]]
    /\ pass = [u \in UsageNames |-> Idle("none", {})]
    /\ errs = 0
    /\ resp = NoRequest
    /\ val = NoCall

\* The webhook serves the admission request for operation op on object o;
\* its List fails or not.
Admission(op, o, listFails) ==
    /\ \E r \in Handle(op, o, listFails) :
          resp' = [op |-> op, obj |-> o, listFails |-> listFails,
                   response |-> r]
    /\ UNCHANGED <<usages, objs, pass, errs, val>>

WebhookNext ==
    \E op \in Operations \cup {UnknownOperation} :
        \E o \in ObjNames : \E listFails \in BOOLEAN :
            Admission(op, o, listFails)

WebhookSpec == WebhookInit /\ [][WebhookNext]_vars

----------------------------------------------------------------------------
\* Validation of composition patches: the types along a transform chain and
\* the index segments of a field path.

\* Width in bits of fieldpath.Segment.Index (a Go uint) and of the signed
\* integer it is converted to, scaled down.
UintBits == 4

\* Largest maxItems and longest transform chain of an input.
MaxMaxItems == 3
MaxTransforms == 2

\* The JSON types of a field's schema; "" when the schema gives none.
KnownJSONTypes == {"", "string", "integer", "number", "boolean", "object"}

\* The transforms of a chain: converts to three types, a math, a map and
\* one of a type that does not exist.
Transforms ==
    {[type |-> "convert", toType |-> t] : t \in {"int64", "float64", "string"}}
       \cup {[type |-> ty, toType |-> ""] : ty \in {"math", "map", "doesnotexist"}}

\* All sequences over S of length 0..n.
SeqsUpTo(S, n) == UNION {[1..k -> S] : k \in 0..n}

\* The transform I/O type of a JSON type, "" with an error for the types
\* that have none.
FromKnownJSONType(t) ==
    CASE t = "string"  -> [out |-> "string",  err |-> FALSE]
      [] t = "integer" -> [out |-> "int64",   err |-> FALSE]
      [] t = "number"  -> [out |-> "float64", err |-> FALSE]
      [] t = "boolean" -> [out |-> "bool",    err |-> FALSE]
      [] OTHER         -> [out |-> "",        err |-> TRUE]

\* The JSON type of a transform I/O type, "" for an unknown one.
ToKnownJSONType(c) ==
    CASE c = "string"           -> "string"
      [] c = "bool"             -> "boolean"
      [] c \in {"int", "int64"} -> "integer"
      [] c = "float64"          -> "number"
      [] OTHER                  -> ""

\* A value of JSON type t can be written where t2 is expected: the same
\* type, or an integer for a number.
IsEquivalent(t, t2) == t = t2 \/ (t = "integer" /\ t2 = "number")

\* The transform accepts an input of I/O type from.
IsValidInput(transform, from) ==
    CASE transform.type = "math"    -> from \in {"int", "int64", "float64"}
      [] transform.type = "map"     -> from = "string"
      [] transform.type = "convert" -> from \in {"string", "bool", "int", "int64", "float64"}
      [] OTHER                      -> FALSE

\* The output type of a transform: nil when it cannot be known, an error
\* for an unknown transform type.
GetOutputType(transform) ==
    CASE transform.type = "math"    -> [out |-> "float64", nil |-> FALSE, err |-> FALSE]
      [] transform.type = "convert" -> [out |-> transform.toType, nil |-> FALSE, err |-> FALSE]
      [] transform.type = "map"     -> [out |-> "", nil |-> TRUE, err |-> FALSE]
      [] OTHER                      -> [out |-> "", nil |-> FALSE, err |-> TRUE]

\* The output type of the chain fed with inputType, or the error of the
\* first transform that does not accept its input or has no known type.
RECURSIVE validateTransformsChainIOTypes(_, _)
validateTransformsChainIOTypes(transforms, inputType) ==
    IF transforms = <<>> THEN [out |-> inputType, err |-> ""]
    ELSE LET transform == Head(transforms)
             o == GetOutputType(transform)
         IN IF ~IsValidInput(transform, inputType) /\ inputType # ""
            THEN [out |-> "", err |-> "Invalid"]
            ELSE IF o.err THEN [out |-> "", err |-> "InternalError"]
            ELSE IF o.nil THEN [out |-> "", err |-> ""]
            ELSE validateTransformsChainIOTypes(Tail(transforms), o.out)

\* The error of a patch from a field of type fromType through the
\* transforms to a field of type toType, "" when it is accepted. The type
\* compared with toType is that of the input of the chain.
validateIOTypesWithTransforms(transforms, fromType, toType) ==
    LET in == FromKnownJSONType(fromType)
        chain == validateTransformsChainIOTypes(transforms, in.out)
    IN IF in.err /\ fromType # "" THEN "InternalError"
       ELSE IF chain.err # "" THEN chain.err
       ELSE IF chain.out = "" \/ toType = "" THEN ""
       ELSE IF ~IsEquivalent(ToKnownJSONType(in.out), toType)
            THEN IF Len(transforms) = 0 THEN "Required" ELSE "Invalid"
       ELSE ""

\* The values of a uint and the conversion of one to a signed integer of
\* the same width.
Uints == 0 .. (2^UintBits - 1)
ToSigned(x) == IF x >= 2^(UintBits - 1) THEN x - 2^UintBits ELSE x

\* The messages of validateFieldPathSegmentIndex, without their arguments.
errNotAnIndex == "segment is not an index"
errFmtIndexAccessWrongType == "trying to access a '%s' by index"
errNoItems == "no items found in array"
errFmtArrayIndexAboveMax == "index is above the allowed size of the array: %d > %d"
errNoSchemaForItem == "no schema for item requested at index %d"

\* The schemas of a parent: nil, or its type, its items (nil, one schema,
\* or a list of n schemas) and its maxItems when hasMax (nil otherwise).
Parents ==
    {[nil |-> TRUE, type |-> "", items |-> "nil", n |-> 0,
      hasMax |-> FALSE, maxItems |-> 0]}
       \cup [nil : {FALSE}, type : {"array", "string", "object"},
              items : {"nil", "schema", "schemas"}, n : 0..2,
              hasMax : {FALSE}, maxItems : {0}]
       \cup [nil : {FALSE}, type : {"array", "string", "object"},
              items : {"nil", "schema", "schemas"}, n : 0..2,
              hasMax : {TRUE}, maxItems : 0..MaxMaxItems]

\* The segments of a field path: a field, or an index.
Segments == [type : {"index", "field"}, index : Uints]

\* The error of the index segment under the schema parent, "" for none.
validateFieldPathSegmentIndex(parent, segment) ==
    IF parent.nil THEN ""
    ELSE IF segment.type # "index" THEN errNotAnIndex
    ELSE IF parent.type # "array" THEN errFmtIndexAccessWrongType
    ELSE IF parent.items = "nil" THEN errNoItems
    ELSE IF /\ parent.hasMax
            /\ parent.maxItems < ToSigned((segment.index + 1) % 2^UintBits)
         THEN errFmtArrayIndexAboveMax
    ELSE IF parent.items = "schema" THEN ""
    ELSE IF parent.n < ToSigned(segment.index) THEN errNoSchemaForItem
    ELSE ""

\* The result of a call that has not been made yet.
Pending == "pending"

\* No Usage and no reconcile pass; the arguments of one call of a
\* validation function are chosen.
PatchInit ==
    /\ usages = [u \in UsageNames |-> NoUsage("absent")]
    /\ objs = [o \in ObjNames |->
                 [exists |-> TRUE, label |-> FALSE, owners |-> {},
                  prefix |-> "", ver |-> 1]]
    /\ pass = [u \in UsageNames |-> Idle("none", {})]
    /\ errs = 0
    /\ resp = NoRequest
    /\ \/ \E transforms \in SeqsUpTo(Transforms, MaxTransforms) :
             \E fromType \in KnownJSONTypes : \E toType \in KnownJSONTypes :
                val = [fn |-> "validateIOTypesWithTransforms",
                       transforms |-> transforms, fromType |-> fromType,
                       toType |-> toType, err |-> Pending]
       \/ \E parent \in Parents : \E segment \in Segments :
             val = [fn |-> "validateFieldPathSegmentIndex",
                    parent |-> parent, segment |-> segment, err |-> Pending]

\* The call of validateIOTypesWithTransforms.
ValidateIOTypes ==
    /\ val.fn = "validateIOTypesWithTransforms"
    /\ val.err = Pending
    /\ val' = [val EXCEPT !.err = validateIOTypesWithTransforms(
                                      val.transforms, val.fromType, val.toType)]
    /\ UNCHANGED <<usages, objs, pass, errs, resp>>

\* The call of validateFieldPathSegmentIndex.
ValidateSegmentIndex ==
    /\ val.fn = "validateFieldPathSegmentIndex"
    /\ val.err = Pending
    /\ val' = [val EXCEPT !.err = validateFieldPathSegmentIndex(
                                      val.parent, val.segment)]
    /\ UNCHANGED <<usages, objs, pass, errs, resp>>

PatchNext ==
    \/ ValidateIOTypes
    \/ ValidateSegmentIndex

PatchSpec == PatchInit /\ [][PatchNext]_vars

----------------------------------------------------------------------------
\* ProviderHooks.Deactivate of the package revision controller.

\* The names a revision's controller reference can carry ("" when the
\* revision has no controller reference).
ControllerNames == {"", "provider-a", "provider-b"}

\* The error of a Delete of the client: none, NotFound, or another one.
DeleteErrors == {"", "NotFound", "error"}

errNoControllerReference ==
    "cannot deactivateRevision provider package, no controller reference found."
errDeleteProviderDeployment == "cannot delete provider package deployment"
errDeleteProviderSA == "cannot delete provider package service account"
errDeleteProviderService == "cannot delete provider package service"

\* resource.IgnoreNotFound: nil for nil and for NotFound.
IgnoreNotFound(err) == IF err = "NotFound" THEN "" ELSE err

\* Deactivate stopping at a Delete that returns NotFound.
DeactivateNotFoundAborts(n, del) ==
    LET deployment == [kind |-> "Deployment", name |-> n]
        sa == [kind |-> "ServiceAccount", name |-> n]
        service == [kind |-> "Service", name |-> n]
    IN IF n # "" THEN [err |-> errNoControllerReference, deletes |-> <<>>]
       ELSE IF del.Deployment # ""
            THEN [err |-> errDeleteProviderDeployment, deletes |-> <<deployment>>]
       ELSE IF del.ServiceAccount # ""
            THEN [err |-> errDeleteProviderSA, deletes |-> <<deployment, sa>>]
       ELSE IF del.Service # ""
            THEN [err |-> errDeleteProviderService,
                  deletes |-> <<deployment, sa, service>>]
       ELSE [err |-> "", deletes |-> <<deployment, sa, service>>]

\* Deactivate of a revision whose controller reference has name n, with
\* del the errors the Deletes return: the error returned ("" for nil) and
\* the Deletes issued, in order.
Deactivate(n, del) ==
    LET deployment == [kind |-> "Deployment", name |-> n]
        sa == [kind |-> "ServiceAccount", name |-> n]
        service == [kind |-> "Service", name |-> n]
    IN IF n # "" THEN [err |-> errNoControllerReference, deletes |-> <<>>]
       ELSE IF IgnoreNotFound(del.Deployment) # ""
            THEN [err |-> errDeleteProviderDeployment, deletes |-> <<deployment>>]
       ELSE IF IgnoreNotFound(del.ServiceAccount) # ""
            THEN [err |-> errDeleteProviderSA, deletes |-> <<deployment, sa>>]
       ELSE IF IgnoreNotFound(del.Service) # ""
            THEN [err |-> errDeleteProviderService,
                  deletes |-> <<deployment, sa, service>>]
       ELSE [err |-> "", deletes |-> <<deployment, sa, service>>]

\* No Usage and no reconcile pass; the revision and the errors of the
\* client of one call of Deactivate are chosen.
HookInit ==
    /\ usages = [u \in UsageNames |-> NoUsage("absent")]
    /\ objs = [o \in ObjNames |->
                 [exists |-> TRUE, label |-> FALSE, owners |-> {},
                  prefix |-> "", ver |-> 1]]
    /\ pass = [u \in UsageNames |-> Idle("none", {})]
    /\ errs = 0
    /\ resp = NoRequest
    /\ \E n \in ControllerNames :
          \E del \in [Deployment : DeleteErrors, ServiceAccount : DeleteErrors,
                      Service : DeleteErrors] :
             val = [fn |-> "Deactivate", n |-> n, del |-> del,
                    err |-> Pending, deletes |-> <<>>]

\* The call of Deactivate.
CallDeactivate ==
    /\ val.fn = "Deactivate"
    /\ val.err = Pending
    /\ LET r == Deactivate(val.n, val.del)
       IN val' = [val EXCEPT !.err = r.err, !.deletes = r.deletes]
    /\ UNCHANGED <<usages, objs, pass, errs, resp>>

HookNext == CallDeactivate

HookSpec == HookInit /\ [][HookNext]_vars

----------------------------------------------------------------------------
\* The values of the reverse index as strings.

\* The index value of a reference: fmt.Sprintf("%s.%s.%s") of its
\* apiVersion, kind and name.
IndexValue(ref) == ref.apiVersion \o "." \o ref.kind \o "." \o ref.name

\* apiVersion, kind and name of the objects of a store: names are DNS
\* subdomains and may contain dots, kinds and versions do not.
ObjectRefs ==
    [apiVersion : {"v1", "g.io/v1"}, kind : {"A", "B"},
     name : {"a", "b", "A.a", "B.b"}]

\* The spec.of of the Usages of a store: the references of the objects and
\* what else the three strings of a spec.of can hold.
UsageRefs ==
    ObjectRefs \cup
       [apiVersion : {"v1", "g.io/v1", "v1.A"}, kind : {"A", "B", "A.B"},
        name : {"a", "b", "A.a", "B.b"}]

\* No reconcile pass; a Usage with spec.of and an object are chosen.
IndexInit ==
    /\ usages = [u \in UsageNames |-> NoUsage("absent")]
    /\ objs = [o \in ObjNames |->
                 [exists |-> TRUE, label |-> FALSE, owners |-> {},
                  prefix |-> "", ver |-> 1]]
    /\ pass = [u \in UsageNames |-> Idle("none", {})]
    /\ errs = 0
    /\ resp = NoRequest
    /\ \E of \in UsageRefs : \E obj \in ObjectRefs :
          val = [fn |-> "IndexValue", of |-> of, obj |-> obj, err |-> Pending,
                 usage |-> "", object |-> ""]

\* The indexer computes the value of the Usage and a listing that of the
\* object.
IndexUsageAndObject ==
    /\ val.fn = "IndexValue"
    /\ val.err = Pending
    /\ val' = [val EXCEPT !.err = "", !.usage = IndexValue(val.of),
                          !.object = IndexValue(val.obj)]
    /\ UNCHANGED <<usages, objs, pass, errs, resp>>

IndexNext == IndexUsageAndObject

IndexSpec == IndexInit /\ [][IndexNext]_vars

----------------------------------------------------------------------------
\* Usages of a using resource that may never have existed.

\* The store holds a; it holds b, or b has never been created.
NeverExistedInit ==
    /\ usages = [u \in UsageNames |-> NoUsage("absent")]
    /\ \E b \in {NoObject,
                  [exists |-> TRUE, label |-> FALSE, owners |-> {},
                   prefix |-> "", ver |-> 1]} :
          objs = [o \in ObjNames |->
                    IF o = "b" THEN b
                    ELSE [exists |-> TRUE, label |-> FALSE, owners |-> {},
                          prefix |-> "", ver |-> 1]]
    /\ pass = [u \in UsageNames |-> Idle("none", {})]
    /\ errs = 0
    /\ resp = NoRequest
    /\ val = NoCall

NeverExistedSpec == NeverExistedInit /\ [][Next]_vars

----------------------------------------------------------------------------
\* The composition webhook: Validate and the CRDs it needs.

\* Largest number of composed resources of a composition.
MaxResources == 2

\* The GroupVersionKinds of a composition: that of its composite type and
\* those of its composed resources.
CompositeGVK == "XR"
GVKs == {CompositeGVK, "R1", "R2"}

\* A composed resource whose base object cannot be read.
BadBase == "bad"

\* The error of a CRD lookup: none (one CRD found), NotFound, another one.
LookupErrors == {"", "NotFound", "error"}

\* The values of the validation mode annotation ("" when absent).
ModeAnnotations == {"", "loose", "strict", "invalid"}

\* The validation mode of a composition: loose unless the annotation says
\* otherwise, an error for a value that is no mode.
GetValidationMode(annotation) ==
    CASE annotation = ""       -> [mode |-> "loose",  err |-> FALSE]
      [] annotation = "loose"  -> [mode |-> "loose",  err |-> FALSE]
      [] annotation = "strict" -> [mode |-> "strict", err |-> FALSE]
      [] OTHER                 -> [mode |-> "",       err |-> TRUE]

\* The result of getNeededCRDs that ends at an error that is not NotFound.
OnlyError(gvk, err) ==
    [nil |-> TRUE, crds |-> {}, errs |-> <<[gvk |-> gvk, err |-> err]>>]

\* The loop of getNeededCRDs over the composed resources: neededCrds are
\* the GVKs mapped so far, resultErrs the NotFound errors so far.
RECURSIVE getCRDsOfResources(_, _, _, _, _)
getCRDsOfResources(resources, lookup, compositeFound, neededCrds, resultErrs) ==
    IF resources = <<>> THEN [nil |-> FALSE, crds |-> neededCrds, errs |-> resultErrs]
    ELSE LET gvk == Head(resources)
             rest == Tail(resources)
         IN IF gvk = BadBase THEN OnlyError(gvk, "error")
            ELSE IF gvk \in neededCrds
            THEN getCRDsOfResources(rest, lookup, compositeFound, neededCrds, resultErrs)
            ELSE IF lookup[gvk] = "NotFound"
            THEN getCRDsOfResources(rest, lookup, compositeFound, neededCrds,
                                    Append(resultErrs, [gvk |-> gvk, err |-> "NotFound"]))
            ELSE IF lookup[gvk] # "" THEN OnlyError(gvk, lookup[gvk])
            ELSE getCRDsOfResources(rest, lookup, compositeFound,
                                    IF compositeFound THEN neededCrds \cup {gvk}
                                    ELSE neededCrds,
                                    resultErrs)

\* The CRDs of the composite type and of the composed resources, by GVK,
\* and the errors of the lookups; lookup is the error of the lookup of each
\* GVK. The CRD of a composed resource is mapped when the CRD of the
\* composite type was found.
getNeededCRDs(resources, lookup) ==
    IF lookup[CompositeGVK] \notin {"", "NotFound"}
    THEN OnlyError(CompositeGVK, lookup[CompositeGVK])
    ELSE IF lookup[CompositeGVK] = "NotFound"
    THEN getCRDsOfResources(resources, lookup, FALSE, {},
                            <<[gvk |-> CompositeGVK, err |-> "NotFound"]>>)
    ELSE getCRDsOfResources(resources, lookup, TRUE, {CompositeGVK}, <<>>)

\* The errors Validate returns.
errInvalid == "Invalid"
errGetValidationMode == "cannot get validation mode"
errGettingCRDs == "there were some errors while getting the needed CRDs: %v"
errStrictMode == "cannot get needed CRDs and strict mode is enabled"
warnLooseMode == "cannot get needed CRDs and loose mode is enabled: %v"

\* The loop of Validate over the errors of getNeededCRDs: the error it
\* returns at ("" when it runs to the end) and the warnings it adds.
RECURSIVE checkCRDErrors(_, _, _)
checkCRDErrors(es, mode, warns) ==
    IF es = <<>> THEN [err |-> "", warns |-> warns]
    ELSE IF Head(es).err # "NotFound" THEN [err |-> errGettingCRDs, warns |-> warns]
    ELSE IF mode = "strict" THEN [err |-> errStrictMode, warns |-> warns]
    ELSE checkCRDErrors(Tail(es), mode, Append(warns, warnLooseMode))

\* Validate running the schema validation although CRDs are missing.
ValidateIgnoringMissing(comp, enabled, lookup, schemaErrs) ==
    LET vm == GetValidationMode(comp.annotation)
        needed == getNeededCRDs(comp.resources, lookup)
        checked == checkCRDErrors(needed.errs, vm.mode, <<>>)
    IN IF comp.logicalErrs
       THEN [err |-> errInvalid, warns |-> <<>>, validated |-> FALSE]
       ELSE IF ~enabled THEN [err |-> "", warns |-> <<>>, validated |-> FALSE]
       ELSE IF vm.err
       THEN [err |-> errGetValidationMode, warns |-> <<>>, validated |-> FALSE]
       ELSE IF checked.err # ""
       THEN [err |-> checked.err, warns |-> checked.warns, validated |-> FALSE]
       ELSE [err |-> IF schemaErrs THEN errInvalid ELSE "",
             warns |-> checked.warns, validated |-> TRUE]

\* Validate of the composition comp: the error returned ("" for nil), the
\* warnings, and whether the schema validation ran. enabled is the feature
\* flag of the schema validation, schemaErrs whether the rendered
\* resources violate their schemas.
Validate(comp, enabled, lookup, schemaErrs) ==
    LET vm == GetValidationMode(comp.annotation)
        needed == getNeededCRDs(comp.resources, lookup)
        checked == checkCRDErrors(needed.errs, vm.mode, <<>>)
    IN IF comp.logicalErrs
       THEN [err |-> errInvalid, warns |-> <<>>, validated |-> FALSE]
       ELSE IF ~enabled THEN [err |-> "", warns |-> <<>>, validated |-> FALSE]
       ELSE IF vm.err
       THEN [err |-> errGetValidationMode, warns |-> <<>>, validated |-> FALSE]
       ELSE IF checked.err # ""
       THEN [err |-> checked.err, warns |-> checked.warns, validated |-> FALSE]
       ELSE IF checked.warns # <<>>
       THEN [err |-> "", warns |-> checked.warns, validated |-> FALSE]
       ELSE [err |-> IF schemaErrs THEN errInvalid ELSE "",
             warns |-> checked.warns, validated |-> TRUE]

\* The compositions: their composed resources, whether their logical
\* validation fails, and their validation mode annotation.
Compositions ==
    [resources : SeqsUpTo(GVKs \cup {BadBase}, MaxResources),
     logicalErrs : BOOLEAN, annotation : ModeAnnotations]

\* No Usage and no reconcile pass; the arguments of one call of Validate
\* or of getNeededCRDs and the errors of the CRD lookups are chosen.
CompositionInit ==
    /\ usages = [u \in UsageNames |-> NoUsage("absent")]
    /\ objs = [o \in ObjNames |->
                 [exists |-> TRUE, label |-> FALSE, owners |-> {},
                  prefix |-> "", ver |-> 1]]
    /\ pass = [u \in UsageNames |-> Idle("none", {})]
    /\ errs = 0
    /\ resp = NoRequest
    /\ \E comp \in Compositions : \E lookup \in [GVKs -> LookupErrors] :
          \/ \E enabled \in BOOLEAN : \E schemaErrs \in BOOLEAN :
                val = [fn |-> "Validate", comp |-> comp, enabled |-> enabled,
                       lookup |-> lookup, schemaErrs |-> schemaErrs,
                       err |-> Pending, warns |-> <<>>, validated |-> FALSE]
          \/ /\ ~comp.logicalErrs
             /\ comp.annotation = ""
             /\ val = [fn |-> "getNeededCRDs", comp |-> comp, lookup |-> lookup,
                       err |-> Pending, nil |-> FALSE, crds |-> {}, errs |-> <<>>]

\* The call of Validate.
CallValidate ==
    /\ val.fn = "Validate"
    /\ val.err = Pending
    /\ LET r == Validate(val.comp, val.enabled, val.lookup, val.schemaErrs)
       IN val' = [val EXCEPT !.err = r.err, !.warns = r.warns,
                             !.validated = r.validated]
    /\ UNCHANGED <<usages, objs, pass, errs, resp>>

\* The call of getNeededCRDs.
CallGetNeededCRDs ==
    /\ val.fn = "getNeededCRDs"
    /\ val.err = Pending
    /\ LET r == getNeededCRDs(val.comp.resources, val.lookup)
       IN val' = [val EXCEPT !.err = "", !.nil = r.nil, !.crds = r.crds,
                             !.errs = r.errs]
    /\ UNCHANGED <<usages, objs, pass, errs, resp>>

CompositionNext ==
    \/ CallValidate
    \/ CallGetNeededCRDs

CompositionSpec == CompositionInit /\ [][CompositionNext]_vars

----------------------------------------------------------------------------
\* Properties.

\* The Usages of the store, reconciled or not, deleting or not, whose
\* spec.of names the object o.
UsagesOf(o) == {u \in Present : Ref(usages[u].of) = Ref(o)}

\* C1: a DELETE admission request on an object is allowed if and only if no
\* Usage in the store has spec.of equal to the object's apiVersion, kind and
\* name; Usages not yet reconciled and Usages marked for deletion that still
\* hold their finalizer count.
WebhookGuard ==
    \A o \in ObjNames : \A r \in Handle("DELETE", o, FALSE) :
        r.allowed <=> UsagesOf(o) = {}

\* A Usage marked for deletion and one never reconciled block the DELETE of
\* the objects they use.
WebhookGuardWitness ==
    /\ \E u \in Present : /\ usages[u].deleted
                          /\ \A r \in Handle("DELETE", usages[u].of, FALSE) :
                                ~r.allowed
    /\ \E u \in Present : /\ ~usages[u].finalizer
                          /\ \A r \in Handle("DELETE", usages[u].of, FALSE) :
                                ~r.allowed

\* The Usage u is marked for deletion and has to wait: spec.by is set, the
\* using resource exists and both carry the same non-empty composite prefix.
MustWait(u) ==
    /\ usages[u].phase = "present"
    /\ usages[u].deleted
    /\ usages[u].by # None
    /\ objs[usages[u].by].exists
    /\ usages[u].prefix # ""
    /\ usages[u].prefix = objs[usages[u].by].prefix

\* C6: no step removes the finalizer of a deleting Usage, and no step of its
\* pass removes the in-use label of its used resource, while spec.by is set,
\* the using resource exists and Usage and using resource carry the same
\* non-empty composite prefix.
NoFinalizeWhileUsingExists ==
    [][\A u \in UsageNames :
          MustWait(u) =>
            /\ usages'[u].phase = "present"
            /\ usages'[u].finalizer
            /\ (pass'[u] # pass[u] /\ objs[usages[u].of].label)
                  => objs'[usages[u].of].label]_vars

\* A deletion pass has found the using resource of the same composite and
\* has returned to wait for it.
NoFinalizeWitness ==
    \E u \in UsageNames : MustWait(u) /\ pass[u].result = "requeue"

\* The Usage u is in state Synced: in the store, not marked for deletion,
\* with Synced=True.
Synced(u) ==
    /\ usages[u].phase = "present"
    /\ ~usages[u].deleted
    /\ usages[u].synced

\* C2: in every reachable state the used resource of every Usage in state
\* Synced carries label in-use=true.
SyncedImpliesInUseLabel ==
    \A u \in UsageNames : Synced(u) => objs[usages[u].of].label

\* The Usages that have ever referenced the object o.
EverUsagesOf(o) ==
    {u \in UsageNames : usages[u].phase # "absent" /\ usages[u].of = o}

\* C3: once all the Usages that reference a used resource have completed
\* their deletion path and lost their finalizer, the resource no longer
\* carries the in-use label.
LabelHygiene ==
    \A o \in ObjNames :
        (/\ EverUsagesOf(o) # {}
         /\ \A u \in EverUsagesOf(o) :
               usages[u].phase = "gone" /\ usages[u].deleted)
        => ~objs[o].label

\* The pass of u persists the removal of the in-use label in this step.
PersistsRemoval(u) ==
    /\ pass[u].pc = "dUpdate"
    /\ pass'[u].pc = "dRmFin"
    /\ objs[usages[u].of].label
    /\ ~objs'[usages[u].of].label

\* C7: whenever a pass persists the removal of the in-use label from a used
\* resource, no Usage other than the one being reconciled references that
\* resource at the moment of the write.
RemovalOnlyWhenLast ==
    [][\A u \in UsageNames :
          PersistsRemoval(u) => UsagesOf(usages[u].of) \subseteq {u}]_vars

\* The pass of u has loaded a Usage in state Synced (finalizer, owner
\* reference to the using resource, Synced=True) and has read its used
\* resource with label in-use=true.
PassOnSynced(u) ==
    /\ pass[u].lu.phase = "present"
    /\ ~pass[u].lu.deleted
    /\ pass[u].lu.synced
    /\ pass[u].lu.finalizer
    /\ pass[u].lu.by # None => pass[u].lu.owners = <<pass[u].lu.by>>
    /\ pass[u].lused.exists
    /\ pass[u].lused.label
    /\ "used" \notin pass[u].wrote

\* C8: a pass on a Usage already in state Synced issues no write to the used
\* resource and no spec or metadata write to the Usage: it does not go on to
\* the Update of the used resource, nor to an Update of the Usage.
SyncedPassWritesNothing ==
    \A u \in UsageNames :
        PassOnSynced(u) => pass[u].pc \notin {"sLabel", "sOwner", "sAddFin"}

\* C10: after a pass on a non-deleted Usage that ended with Synced=True, the
\* owner references of the used resource include the Usage's UID.
SyncedImpliesOwnerOfUsed ==
    \A u \in UsageNames :
        (/\ usages[u].phase = "present"
         /\ pass[u].result = "done"
         /\ "status" \in pass[u].wrote)
        => u \in objs[usages[u].of].owners

\* The Usage u is marked for deletion and nothing makes it wait: spec.by is
\* unset, or the using resource is absent, or the using resource does not
\* carry the Usage's non-empty composite prefix.
DeletingUnblocked(u) ==
    /\ usages[u].phase = "present"
    /\ usages[u].deleted
    /\ ~MustWait(u)

\* C4: under fair reconciliation and finitely many store errors, the
\* finalizer of every Usage that is marked for deletion and need not wait is
\* eventually removed (the Usage leaves the store).
FinalizerEventuallyRemoved ==
    \A u \in UsageNames : DeletingUnblocked(u) ~> (usages[u].phase = "gone")

\* A Usage that was marked for deletion with spec.by set and its using
\* resource absent has left the store by its deletion path.
FinalizerRemovedWitness ==
    \E u \in UsageNames :
        /\ usages[u].phase = "gone"
        /\ usages[u].deleted
        /\ usages[u].by # None
        /\ ~objs[usages[u].by].exists

\* The Usages that can be created with spec.by set.
UsagesWithBy ==
    {u \in UsageNames : \E s \in UsageSpecs(u) : s.by # None}

\* Every Usage other than u has left the store.
OthersGone(u) == \A v \in UsageNames \ {u} : usages[v].phase = "gone"

\* C5: when a Usage and its using resource belong to the same composite and
\* the cascade deletes Usage, using and used resource, nothing deadlocks:
\* the Usage, the using and the used resource are eventually all gone; the
\* Usage loses its finalizer only after the using resource is gone, and the
\* DELETE of an object is admitted only when no Usage of it is left.
CompositeCascadeCompletes ==
    /\ \A u \in UsagesWithBy :
          (MustWait(u) /\ OthersGone(u))
              ~> (/\ usages[u].phase = "gone"
                  /\ usages[u].by # None
                  /\ ~objs[usages[u].by].exists
                  /\ ~objs[usages[u].of].exists)
    /\ [][\A u \in UsageNames :
             (/\ usages[u].phase = "present" /\ usages[u].finalizer
              /\ usages[u].by # None
              /\ usages[u].prefix # ""
              /\ usages[u].prefix = objs[usages[u].by].prefix
              /\ usages'[u].phase = "gone")
             => ~objs[usages[u].by].exists]_vars
    /\ [][\A o \in ObjNames :
             (objs[o].exists /\ ~objs'[o].exists) => UsagesOf(o) = {}]_vars

\* The Usage of a composite has waited for its using resource, has then left
\* the store by its deletion path, and the used resource is gone as well.
CompositeCascadeWitness ==
    \E u \in UsageNames :
        /\ usages[u].phase = "gone"
        /\ usages[u].deleted
        /\ usages[u].by # None
        /\ usages[u].prefix # ""
        /\ usages[u].prefix = objs[usages[u].by].prefix
        /\ ~objs[usages[u].by].exists
        /\ ~objs[usages[u].of].exists

\* C9: from a Synced Usage owned by its using resource, once the using
\* resource is deleted (and no other Usage is left), the cascade and fair
\* reconciliation lead to the Usage gone, the in-use label removed from the
\* used resource, and a DELETE of the used resource admitted.
DeletingUsingReleasesUsed ==
    \A u \in UsagesWithBy :
        (/\ Synced(u)
         /\ usages[u].by # None
         /\ usages[u].owners = <<usages[u].by>>
         /\ ~objs[usages[u].by].exists
         /\ OthersGone(u))
        ~> (/\ usages[u].phase = "gone"
            /\ objs[usages[u].of].exists
            /\ ~objs[usages[u].of].label
            /\ Admitted(usages[u].of))

\* The garbage collector has marked the Synced Usage of a deleted using
\* resource for deletion, and its deletion pass has removed the in-use label
\* and is about to remove the finalizer.
DeletingUsingWitness ==
    \E u \in UsageNames :
        /\ usages[u].phase = "present"
        /\ usages[u].deleted
        /\ usages[u].synced
        /\ usages[u].owners = <<usages[u].by>>
        /\ ~objs[usages[u].by].exists
        /\ OthersGone(u)
        /\ pass[u].pc = "dRmFin"
        /\ "used" \in pass[u].wrote
        /\ ~objs[usages[u].of].label

----------------------------------------------------------------------------
\* Owner references of the Usage.

\* The pass of u on a non-deleted Usage with spec.by has done its
\* owner-reference step (or found it not needed) and is about to update the
\* status.
PastOwnerStep(u) == pass[u].pc = "sStatus" /\ pass[u].lu.by # None

\* How many of the owner references have this UID.
OwnerCount(owners, uid) == Cardinality({i \in 1..Len(owners) : owners[i] = uid})

----------------------------------------------------------------------------
\* The finalizer of the Usage on the steady-state path.

\* The last pass of u returned without error and without asking for a
\* requeue, and the Usage is in the store, not marked for deletion.
ReturnedSuccess(u) ==
    /\ pass[u].pc = "idle"
    /\ pass[u].result = "done"
    /\ usages[u].phase = "present"
    /\ ~usages[u].deleted

\* C12: every reconcile pass on a non-deleted Usage that returns without
\* error leaves the Usage with the finalizer on it.
SuccessImpliesFinalizer ==
    \A u \in UsageNames : ReturnedSuccess(u) => usages[u].finalizer

\* The store calls of the steady-state path that follow AddFinalizer.
AfterFinalizer == {"sGetUsed", "sLabel", "sGetUsing", "sOwner", "sStatus"}

\* The pass of u ends at its AddFinalizer call, which failed.
AddFinalizerFails(u) == pass[u].pc = "sAddFin" /\ pass'[u].pc = "idle"

\* C13: within a pass on a non-deleted Usage the used resource is read and
\* written only with the finalizer persisted on the Usage in the store, and
\* a pass whose AddFinalizer fails ends there: it has written nothing, and
\* neither the used resource nor the Usage changes.
FinalizerBeforeUsed ==
    /\ [](\A u \in UsageNames :
            /\ pass[u].pc \in AfterFinalizer =>
                   usages[u].phase = "present" /\ usages[u].finalizer
            /\ pass[u].pc = "sAddFin" => pass[u].wrote = {})
    /\ [][\A u \in UsageNames :
            AddFinalizerFails(u) =>
                /\ pass'[u].wrote = {}
                /\ objs' = objs
                /\ usages' = usages]_vars

\* A pass has ended at a failed AddFinalizer: the Usage is in the store
\* without finalizer, and its used resource is unlabelled.
FinalizerFailedWitness ==
    \E u \in UsageNames :
        /\ ReturnedSuccess(u)
        /\ ~usages[u].finalizer
        /\ pass[u].wrote = {}
        /\ objs[usages[u].of].exists
        /\ ~objs[usages[u].of].label

----------------------------------------------------------------------------
\* Order of the writes of the deletion path.

\* The deletion pass of u found its used resource and listed no other Usage
\* of it, and is about to remove the finalizer.
LastUsageAtFinalizer(u) ==
    /\ pass[u].pc = "dRmFin"
    /\ pass[u].lused.exists
    /\ pass[u].n < 2

\* The pass of u ends at its Update of the used resource, which failed.
RemoveInUseLabelFails(u) == pass[u].pc = "dUpdate" /\ pass'[u].pc = "idle"

\* C14: on the deletion path of a Usage that is the only one listed for a
\* used resource that exists, the Update that removes the in-use label has
\* been accepted by the store before the finalizer is removed, and when that
\* Update fails the pass returns the error of the label removal, the
\* finalizer stays on the Usage and the used resource is unchanged.
LabelRemovedBeforeFinalizer ==
    /\ [](\A u \in UsageNames :
            LastUsageAtFinalizer(u) =>
                /\ "used" \in pass[u].wrote
                /\ ~pass[u].lused.label
                /\ usages[u].phase = "present"
                /\ usages[u].finalizer)
    /\ [][\A u \in UsageNames :
            /\ PersistsRemoval(u) => usages'[u].finalizer
            /\ RemoveInUseLabelFails(u) =>
                   /\ pass'[u].result = errRemoveInUseLabel
                   /\ usages'[u].phase = "present"
                   /\ usages'[u].finalizer
                   /\ objs' = objs]_vars

\* A deletion pass has ended at its label removal, which the store failed:
\* the Usage keeps its finalizer and the used resource its label.
LabelRemovalFailedWitness ==
    \E u \in UsageNames :
        /\ pass[u].pc = "idle"
        /\ pass[u].result = errRemoveInUseLabel
        /\ usages[u].deleted
        /\ usages[u].finalizer
        /\ objs[usages[u].of].label

----------------------------------------------------------------------------
\* The responses of the webhook handler.

\* The webhook has served a DELETE whose List succeeded.
ServedDelete == resp.op = "DELETE" /\ ~resp.listFails

\* C15: to every admission request whose operation is not DELETE (CREATE,
\* UPDATE, CONNECT or an unknown one) the webhook responds Errored with
\* code 400 and message "unexpected operation", whatever the store holds
\* and whether or not a List would fail: it reads nothing from the store.
NonDeleteIsBadRequest ==
    resp.op \notin {"none", "DELETE"} =>
        /\ resp.response = Errored(400, "unexpected operation")
        /\ Handle(resp.op, resp.obj, TRUE) = Handle(resp.op, resp.obj, FALSE)

\* The webhook has answered 400 to an unknown operation on an object that a
\* Usage in the store references, with a List that would have failed.
NonDeleteWitness ==
    /\ resp.op = UnknownOperation
    /\ resp.listFails
    /\ MatchingUsages(resp.obj) # {}
    /\ resp.response.code = 400

\* C16: when the List of the Usages fails, the webhook does not allow the
\* DELETE: it responds Errored with a code of the 500 class.
ListFailureNeverAllows ==
    (resp.op = "DELETE" /\ resp.listFails) =>
        /\ ~resp.response.allowed
        /\ resp.response.code \in 500..599

\* The webhook has answered a DELETE of an object no Usage references with
\* a 500, its List having failed.
ListFailureWitness ==
    /\ resp.op = "DELETE"
    /\ resp.listFails
    /\ MatchingUsages(resp.obj) = {}
    /\ resp.response.code = 500

\* C17: when the webhook denies the DELETE of a used resource because of a
\* Usage with spec.by, the message is "The resource is used by " followed by
\* the kind of the using resource, "/" and the name of the using resource.
DenialNamesUsing ==
    (ServedDelete /\ resp.response.code = 403) =>
        \E u \in MatchingUsages(resp.obj) :
            /\ usages[u].by # None
            /\ resp.response.msg =
                  "The resource is used by " \o Ref(usages[u].by).kind
                      \o "/" \o Ref(usages[u].by).name

\* C18: to the DELETE of a resource referenced only by Usages without
\* spec.by the webhook responds with a Denied response (code 403): the
\* request does not end without a response.
UnownedPinDenied ==
    (/\ ServedDelete
     /\ MatchingUsages(resp.obj) # {}
     /\ \A u \in MatchingUsages(resp.obj) : usages[u].by = None) =>
        /\ ~resp.response.allowed
        /\ resp.response.code = 403

----------------------------------------------------------------------------
\* The in-use label and the decision of the webhook.

----------------------------------------------------------------------------
\* Two Usages of one used resource, deleted one after the other.

\* The deletion pass of u lists the Usages of its used resource in this
\* step and finds at least two.
ListsAnotherUsage(u) == pass[u].pc = "dList" /\ pass'[u].n >= 2

\* The deletion pass of u, having listed at least two Usages, is at its
\* RemoveFinalizer call.
AnotherUsageAtFinalizer(u) ==
    /\ pass[u].pc = "dRmFin"
    /\ pass[u].lused.exists
    /\ pass[u].n >= 2

\* Every other Usage referenced the used resource of u and has left the
\* store by its deletion path; u is marked for deletion, need not wait, and
\* no pass of u is past its listing of the Usages.
LastUsageDeleting(u) ==
    /\ DeletingUnblocked(u)
    /\ pass[u].pc \notin {"dUpdate", "dRmFin"}
    /\ \A v \in UsageNames \ {u} :
          /\ usages[v].phase = "gone"
          /\ usages[v].deleted
          /\ usages[v].of = usages[u].of

\* C20: a deletion pass that lists at least two Usages of its used resource
\* goes on to RemoveFinalizer without a write to the used resource, and that
\* RemoveFinalizer takes the Usage out of the store and leaves the used
\* resource as it is; the DELETE of the used resource is denied as long as
\* a Usage of it is in the store; and once the other Usages of the resource
\* have left by their deletion path, deleting the last one leads, under
\* fair reconciliation, to that Usage gone, the in-use label removed and the
\* DELETE of the used resource admitted.
OneOfTwoUsagesDeleted ==
    /\ [](\A u \in UsageNames :
            /\ AnotherUsageAtFinalizer(u) =>
                   "used" \notin pass[u].wrote /\ usages[u].finalizer
            /\ usages[u].phase = "present" => ~Admitted(usages[u].of))
    /\ [][\A u \in UsageNames :
            /\ ListsAnotherUsage(u) =>
                   pass'[u].pc = "dRmFin" /\ objs' = objs
            /\ (AnotherUsageAtFinalizer(u) /\ pass'[u].result = "done") =>
                   /\ usages'[u].phase = "gone"
                   /\ pass'[u].wrote = {"usage"}
                   /\ objs' = objs]_vars
    /\ \A u \in UsageNames :
          LastUsageDeleting(u)
              ~> (/\ usages[u].phase = "gone"
                  /\ objs[usages[u].of].exists => ~objs[usages[u].of].label
                  /\ Admitted(usages[u].of))

\* One of two Usages of a used resource has left the store by a deletion
\* pass that wrote nothing but its finalizer removal; the other is in the
\* store, not marked for deletion, the label is on the used resource and
\* its DELETE is denied.
OneOfTwoDeletedWitness ==
    \E u \in UsageNames : \E v \in UsageNames \ {u} :
        /\ usages[u].phase = "gone"
        /\ usages[u].deleted
        /\ pass[u].result = "done"
        /\ pass[u].wrote = {"usage"}
        /\ usages[v].of = usages[u].of
        /\ Synced(v)
        /\ objs[usages[v].of].label
        /\ ~Admitted(usages[v].of)

----------------------------------------------------------------------------
\* Failing selector resolution.

\* The last pass of u returned the error of the selector resolution.
ResolveFailed(u) ==
    pass[u].pc = "idle" /\ pass[u].result = errResolveSelectors

ResolveFailureSetsSyncedFalse ==
    \A u \in UsageNames :
        (/\ ResolveFailed(u)
         /\ errs = 0
         /\ usages[u].phase = "present") =>
            SyncedCondition(usages[u]) = "False"

----------------------------------------------------------------------------
\* The branches of the deletion path and the failures of the steady state.

\* The pass of u makes a step (a store call of its own, or one that fails).
PassStep(u) == pass'[u] # pass[u]

\* The store call of the step of u fails with a transient error.
CallFails == errs' # errs

\* The pass copy of u is of a Usage with spec.by whose using resource is in
\* the store and carries the composite prefix of the Usage.
UsingOfSameComposite(u) ==
    /\ pass[u].lu.by # None
    /\ objs[pass[u].lu.by].exists
    /\ pass[u].lu.prefix # ""
    /\ pass[u].lu.prefix = objs[pass[u].lu.by].prefix

\* C23: a deletion pass that finds the using resource of the same composite
\* returns the requeue-after result and no error and changes nothing in the
\* store (the Usage keeps its finalizer, the used resource its label and
\* version), and no other step of a pass returns that result.
RequeueOnlyFromSameCompositeWait ==
    [][\A u \in UsageNames :
          /\ (/\ pass[u].pc = "dGetUsing"
              /\ PassStep(u)
              /\ ~CallFails
              /\ UsingOfSameComposite(u)) =>
                 pass'[u].pc = "idle" /\ pass'[u].result = "requeue"
          /\ (PassStep(u) /\ pass'[u].result = "requeue") =>
                 /\ pass[u].pc = "dGetUsing"
                 /\ UsingOfSameComposite(u)
                 /\ pass'[u].wrote = {}
                 /\ usages' = usages
                 /\ usages[u].finalizer
                 /\ objs' = objs]_vars

\* A deletion pass has returned the requeue-after result having written
\* nothing: the Usage holds its finalizer and the used resource its label.
RequeueWitness ==
    \E u \in UsageNames :
        /\ pass[u].pc = "idle"
        /\ pass[u].result = "requeue"
        /\ pass[u].wrote = {}
        /\ usages[u].phase = "present"
        /\ usages[u].finalizer
        /\ objs[usages[u].of].exists
        /\ objs[usages[u].of].label

\* C24: on the deletion path with spec.by set, a using resource that is
\* NotFound lets the pass go on to the used resource (label cleanup and
\* finalizer removal) whatever the composite prefix of the Usage, while a
\* failing Get of the using resource ends the pass with the get-using error
\* and without any write.
UsingGoneProceeds ==
    [][\A u \in UsageNames :
          (pass[u].pc = "dGetUsing" /\ PassStep(u)) =>
             IF CallFails
             THEN /\ pass'[u].pc = "idle"
                  /\ pass'[u].result = errGetUsing
                  /\ pass'[u].wrote = {}
                  /\ usages' = usages
                  /\ objs' = objs
             ELSE ~objs[pass[u].lu.by].exists =>
                     /\ pass'[u].pc = "dGetUsed"
                     /\ pass'[u].result = "running"]_vars

\* The deletion pass of a Usage with a composite prefix has found its using
\* resource gone and is about to get the used resource.
UsingGoneWitness ==
    \E u \in UsageNames :
        /\ pass[u].pc = "dGetUsed"
        /\ pass[u].lu.by # None
        /\ pass[u].lu.prefix # ""
        /\ ~objs[pass[u].lu.by].exists

\* C25: on the deletion path a used resource that is NotFound skips the
\* list and the label update: the pass goes straight to the finalizer
\* without reading the index or writing the used resource, and its
\* RemoveFinalizer, when the Update is accepted, removes the Usage and
\* returns success.
UsedGoneSkipsCleanup ==
    /\ [](\A u \in UsageNames :
            (pass[u].pc = "dRmFin" /\ ~pass[u].lused.exists) =>
                pass[u].n = 0 /\ "used" \notin pass[u].wrote)
    /\ [][\A u \in UsageNames :
            /\ (/\ pass[u].pc = "dGetUsed"
                /\ PassStep(u)
                /\ ~CallFails
                /\ ~objs[pass[u].lu.of].exists) =>
                   /\ pass'[u].pc = "dRmFin"
                   /\ usages' = usages
                   /\ objs' = objs
            /\ (/\ pass[u].pc = "dRmFin"
                /\ ~pass[u].lused.exists
                /\ PassStep(u)
                /\ ~CallFails
                /\ ~UsageUpdateRefused(u)) =>
                   /\ pass'[u].pc = "idle"
                   /\ pass'[u].result = "done"
                   /\ usages'[u].phase # "present"
                   /\ objs' = objs]_vars

\* A deletion pass has found the used resource gone and is about to remove
\* the finalizer the Usage holds.
UsedGoneWitness ==
    \E u \in UsageNames :
        /\ pass[u].pc = "dRmFin"
        /\ pass[u].lu.finalizer
        /\ ~pass[u].lused.exists
        /\ ~objs[pass[u].lu.of].exists

\* C26: on the steady-state path a used resource that is NotFound ends the
\* pass with the get-used error: the pass writes neither the status nor the
\* owner references, nothing in the store changes, and the Usage is left
\* holding its finalizer.
SteadyUsedGoneFails ==
    [][\A u \in UsageNames :
          (/\ pass[u].pc = "sGetUsed"
           /\ PassStep(u)
           /\ ~objs[pass[u].lu.of].exists) =>
              /\ pass'[u].pc = "idle"
              /\ pass'[u].result = errGetUsed
              /\ "status" \notin pass'[u].wrote
              /\ usages' = usages
              /\ usages[u].phase = "present"
              /\ usages[u].finalizer
              /\ objs' = objs]_vars

\* A steady-state pass has failed on a used resource that is not in the
\* store, without a store error; the Usage holds its finalizer.
SteadyUsedGoneWitness ==
    \E u \in UsageNames :
        /\ pass[u].pc = "idle"
        /\ pass[u].result = errGetUsed
        /\ errs = 0
        /\ usages[u].phase = "present"
        /\ ~usages[u].deleted
        /\ usages[u].finalizer
        /\ ~usages[u].synced
        /\ ~objs[usages[u].of].exists

\* C27: when the Update of AddFinalizer fails (refused by the store, or a
\* transient error) the pass ends at that step with an empty result and no
\* error, and the Usage is not changed.
AddFinalizerFailureIsSilent ==
    [][\A u \in UsageNames :
          (/\ pass[u].pc = "sAddFin"
           /\ PassStep(u)
           /\ (CallFails \/ UsageUpdateRefused(u))) =>
              /\ pass'[u].pc = "idle"
              /\ pass'[u].result = "done"
              /\ usages' = usages]_vars

\* A pass has ended at an AddFinalizer the store refused without any store
\* error: the Usage it read is no longer the stored one.
AddFinalizerRefusedWitness ==
    \E u \in UsageNames :
        /\ pass[u].pc = "idle"
        /\ pass[u].result = "done"
        /\ pass[u].wrote = {}
        /\ errs = 0
        /\ usages[u].phase = "gone"
        /\ ~usages[u].finalizer

\* C28: a step of a pass changes no object but the used resource of its
\* Usage, and of that only the label, the owner references and the
\* version; it never changes the using resource, removes no object from the
\* store and changes no other Usage, and its own Usage leaves the store
\* only when marked for deletion.
PassWritesOnlyUsedMetadata ==
    [][\A u \in UsageNames :
          PassStep(u) =>
             /\ \A o \in DOMAIN objs :
                   objs'[o] # objs[o] =>
                      /\ o = pass[u].lu.of
                      /\ o # pass[u].lu.by
                      /\ objs'[o].exists = objs[o].exists
                      /\ objs'[o].prefix = objs[o].prefix
             /\ \A w \in UsageNames \ {u} : usages'[w] = usages[w]
             /\ usages'[u].phase # usages[u].phase => usages[u].deleted]_vars

\* A pass of a Usage with a using resource has written the label on the
\* used resource and left the using resource as it was created.
UsedLabelledUsingUntouchedWitness ==
    \E u \in UsageNames :
        /\ pass[u].pc \in {"sGetUsing", "sOwner", "sStatus"}
        /\ "used" \in pass[u].wrote
        /\ pass[u].lu.by # None
        /\ objs[pass[u].lu.of].label
        /\ objs[pass[u].lu.by].exists
        /\ ~objs[pass[u].lu.by].label
        /\ objs[pass[u].lu.by].ver = 1

----------------------------------------------------------------------------
\* Validation of patches.

\* The last call was validateIOTypesWithTransforms with both types given
\* and a chain that has a known output type.
TypedPatchValidated ==
    /\ val.fn = "validateIOTypesWithTransforms"
    /\ val.err # Pending
    /\ val.toType # ""
    /\ ~FromKnownJSONType(val.fromType).err
    /\ LET chain == validateTransformsChainIOTypes(
                        val.transforms, FromKnownJSONType(val.fromType).out)
       IN chain.err = "" /\ chain.out # ""

\* C29: validateIOTypesWithTransforms accepts a patch exactly when the
\* output type of the whole transform chain, fed with the type of the
\* source field, is equivalent to the type of the destination field
\* (an integer being accepted for a number); without transforms that
\* output type is the source type.
AcceptsIffChainOutputEquivalent ==
    TypedPatchValidated =>
        LET chain == validateTransformsChainIOTypes(
                         val.transforms, FromKnownJSONType(val.fromType).out)
        IN (val.err = "") <=> IsEquivalent(ToKnownJSONType(chain.out), val.toType)

\* C30: validateFieldPathSegmentIndex on an array schema with maxItems = M
\* returns an error for every index i >= M and not the maxItems error for
\* an index below M, and on a parent that is not an array it always
\* returns an error.
IndexErrorIffAtOrAboveMaxItems ==
    (/\ val.fn = "validateFieldPathSegmentIndex"
     /\ val.err # Pending
     /\ ~val.parent.nil
     /\ val.segment.type = "index") =>
       /\ val.parent.type # "array" => val.err # ""
       /\ (/\ val.parent.type = "array"
           /\ val.parent.items # "nil"
           /\ val.parent.hasMax) =>
              IF val.segment.index >= val.parent.maxItems
              THEN val.err # ""
              ELSE val.err # errFmtArrayIndexAboveMax

----------------------------------------------------------------------------
\* Deactivation of a provider revision.

\* Deactivate has returned.
Deactivated == val.fn = "Deactivate" /\ val.err # Pending

\* The three Deletes of a deactivation of the controller named n.
ProviderDeletes(n) ==
    <<[kind |-> "Deployment", name |-> n],
      [kind |-> "ServiceAccount", name |-> n],
      [kind |-> "Service", name |-> n]>>

\* C31: Deactivate returns the error "no controller reference found" only
\* when the name of the revision's controller reference is empty; with a
\* name it deletes the deployment, the service account and the service of
\* that name and, when no Delete fails, returns success.
DeactivateFailsOnlyWithoutController ==
    Deactivated =>
        /\ val.err = errNoControllerReference => val.n = ""
        /\ (val.n # "" /\ \A k \in DOMAIN val.del : val.del[k] = "") =>
               /\ val.err = ""
               /\ val.deletes = ProviderDeletes(val.n)

\* C32: when Deactivate reaches its Deletes it issues them in the order
\* deployment, service account, service; a Delete that returns NotFound or
\* no error is followed by the next one, and the first other error ends
\* the call, which returns the error of that Delete and issues no further
\* Delete.
DeletesInOrderUntilError ==
    (Deactivated /\ val.deletes # <<>>) =>
        LET all == ProviderDeletes(val.n)
            k == Len(val.deletes)
            errOf == [Deployment |-> errDeleteProviderDeployment,
                      ServiceAccount |-> errDeleteProviderSA,
                      Service |-> errDeleteProviderService]
        IN /\ val.deletes = SubSeq(all, 1, k)
           /\ \A i \in 1..(k - 1) : val.del[all[i].kind] \in {"", "NotFound"}
           /\ IF val.del[all[k].kind] \in {"", "NotFound"}
              THEN k = 3 /\ val.err = ""
              ELSE val.err = errOf[all[k].kind]

\* Deactivate found the deployment and the service account gone, went on
\* to the service and failed on its Delete.
NotFoundIgnoredWitness ==
    /\ Deactivated
    /\ val.del.Deployment = "NotFound"
    /\ val.del.ServiceAccount = "NotFound"
    /\ val.del.Service = "error"
    /\ Len(val.deletes) = 3
    /\ val.err = errDeleteProviderService

----------------------------------------------------------------------------
\* Validation of compositions.

\* The indexes of the composed resources of comp whose base object is read.
ReadableResources(comp) ==
    {i \in 1..Len(comp.resources) : comp.resources[i] # BadBase}

\* A CRD lookup of the composition fails with an error that is not
\* NotFound, or a base object cannot be read.
LookupFails(comp, lookup) ==
    \/ lookup[CompositeGVK] = "error"
    \/ \E i \in 1..Len(comp.resources) :
          comp.resources[i] = BadBase \/ lookup[comp.resources[i]] = "error"

\* A CRD the composition needs is NotFound.
CRDMissing(comp, lookup) ==
    \/ lookup[CompositeGVK] = "NotFound"
    \/ \E i \in ReadableResources(comp) : lookup[comp.resources[i]] = "NotFound"

\* Validate has returned for a logically valid composition with a valid
\* validation mode, the schema validation being enabled.
SchemaValidationAsked ==
    /\ val.fn = "Validate"
    /\ val.err # Pending
    /\ val.enabled
    /\ ~val.comp.logicalErrs
    /\ ~GetValidationMode(val.comp.annotation).err

\* C33: with schema validation enabled, Validate rejects the composition
\* when a lookup of a needed CRD fails with an error that is not NotFound;
\* when a needed CRD is NotFound it rejects the composition in strict mode
\* and in loose mode accepts it with a warning without running the schema
\* validation; the schema validation runs only when no CRD is missing.
MissingCRDsByMode ==
    SchemaValidationAsked =>
        LET comp == val.comp
            mode == GetValidationMode(comp.annotation).mode
        IN /\ LookupFails(comp, val.lookup) => val.err # ""
           /\ (~LookupFails(comp, val.lookup) /\ CRDMissing(comp, val.lookup)) =>
                 IF mode = "strict" THEN val.err # ""
                 ELSE /\ val.err = ""
                      /\ val.warns # <<>>
                      /\ ~val.validated
           /\ val.validated =>
                 ~CRDMissing(comp, val.lookup) /\ ~LookupFails(comp, val.lookup)

\* In loose mode a composition whose composed resource has no CRD, and
\* whose rendered resources would violate their schemas, was accepted with
\* a warning and without schema validation.
LooseSkipWitness ==
    /\ SchemaValidationAsked
    /\ GetValidationMode(val.comp.annotation).mode = "loose"
    /\ val.lookup[CompositeGVK] = ""
    /\ CRDMissing(val.comp, val.lookup)
    /\ val.schemaErrs
    /\ val.err = ""
    /\ val.warns # <<>>
    /\ ~val.validated

\* C34: when no lookup fails with another error than NotFound, the map
\* getNeededCRDs returns has an entry for the GVK of every composed
\* resource whose CRD lookup succeeded, whether or not the CRD of the
\* composite type was found, and the error list has one error for every
\* lookup that returned NotFound.
NeededCRDsOfEveryFoundResource ==
    (/\ val.fn = "getNeededCRDs"
     /\ val.err # Pending
     /\ ~LookupFails(val.comp, val.lookup)) =>
        LET res == val.comp.resources
        IN /\ \A i \in 1..Len(res) : val.lookup[res[i]] = "" => res[i] \in val.crds
           /\ Len(val.errs) =
                 Cardinality({i \in 1..Len(res) : val.lookup[res[i]] = "NotFound"})
                    + (IF val.lookup[CompositeGVK] = "NotFound" THEN 1 ELSE 0)

----------------------------------------------------------------------------
\* A using resource that never existed.

\* The object o has never been in the store.
NeverExisted(o) == ~objs[o].exists /\ objs[o].ver = 0

\* The Usage u is in the store, not marked for deletion, and its spec.by
\* names a resource that never existed.
UsingNeverExisted(u) ==
    /\ usages[u].phase = "present"
    /\ ~usages[u].deleted
    /\ usages[u].by # None
    /\ NeverExisted(usages[u].by)

\* C35: a pass on a non-deleted Usage whose spec.by names a resource that
\* never existed has added the finalizer and labelled the used resource
\* when it gets the using resource, and fails there with the get-using
\* error; the Usage never has Synced=True nor the using resource among its
\* owners, and the DELETE of its used resource is denied.
NeverExistedUsingStillProtects ==
    /\ [](\A u \in UsageNames :
            UsingNeverExisted(u) =>
               /\ ~usages[u].synced
               /\ \A i \in DOMAIN usages[u].owners :
                     usages[u].owners[i] # usages[u].by
               /\ ~Admitted(usages[u].of)
               /\ pass[u].pc = "sGetUsing" =>
                     /\ usages[u].finalizer
                     /\ pass[u].lused.label)
    /\ [][\A u \in UsageNames :
            (/\ UsingNeverExisted(u)
             /\ pass[u].pc = "sGetUsing"
             /\ PassStep(u)) =>
                /\ pass'[u].pc = "idle"
                /\ pass'[u].result = errGetUsing
                /\ usages' = usages
                /\ objs' = objs]_vars

\* A pass of a Usage whose using resource never existed has failed getting
\* it, without a store error: the Usage holds the finalizer and the used
\* resource the label.
NeverExistedUsingWitness ==
    \E u \in UsageNames :
        /\ UsingNeverExisted(u)
        /\ pass[u].pc = "idle"
        /\ pass[u].result = errGetUsing
        /\ errs = 0
        /\ usages[u].finalizer
        /\ objs[usages[u].of].label
        /\ pass[u].wrote = {"usage", "used"}

----------------------------------------------------------------------------
\* Progress to the state Synced.

\* The Usage u is in the store, not marked for deletion, its spec.of is
\* resolved and its used resource (and its using resource, when spec.by is
\* set) is in the store.
Reconcilable(u) ==
    /\ usages[u].phase = "present"
    /\ ~usages[u].deleted
    /\ usages[u].of # Unresolved
    /\ objs[usages[u].of].exists
    /\ usages[u].by # None => objs[usages[u].by].exists

\* The Usage u is fully in state Synced: finalizer, in-use label on the
\* used resource, the using resource among its owners when spec.by is set,
\* and Synced=True.
FullySynced(u) ==
    /\ Synced(u)
    /\ usages[u].finalizer
    /\ objs[usages[u].of].exists
    /\ objs[usages[u].of].label
    /\ usages[u].by # None =>
          \E i \in DOMAIN usages[u].owners : usages[u].owners[i] = usages[u].by

----------------------------------------------------------------------------
\* The conditions after Synced.

\* C38: once Synced=True and Ready=True are set on a Usage no step changes
\* them as long as the Usage is in the store: a failing steady-state pass
\* and a deletion pass end without a status update.
SyncedNeverReset ==
    /\ [][\A u \in UsageNames :
            (/\ usages[u].phase = "present"
             /\ usages[u].synced
             /\ usages'[u].phase = "present") =>
                usages'[u].synced]_vars
    /\ [](\A u \in UsageNames :
            (pass[u].pc = "idle" /\ (Failed(u) \/ pass[u].lu.deleted
                                       \/ pass[u].result = "requeue")) =>
               "status" \notin pass[u].wrote)

\* A Usage has Synced=True although its last pass failed to get its using
\* resource, which is gone.
StaleSyncedWitness ==
    \E u \in UsageNames :
        /\ Synced(u)
        /\ usages[u].by # None
        /\ ~objs[usages[u].by].exists
        /\ pass[u].pc = "idle"
        /\ pass[u].result = errGetUsing
        /\ errs = 0

----------------------------------------------------------------------------
\* Exactness of the index key.

\* C37: the index value of a Usage equals the index value computed from an
\* object if and only if the spec.of of the Usage is the apiVersion, kind
\* and name of the object, so that a listing under the value of an object
\* holds exactly the Usages that reference it.
IndexKeyExact ==
    (val.fn = "IndexValue" /\ val.err # Pending) =>
        ((val.usage = val.object) <=> (val.of = val.obj))


====
